---- MODULE Spec2Model ----
(***************************************************************************)
(* Task Complaint API (task-api/main.py): a single "tasks" table behind    *)
(* five request handlers (create, list, get, update, delete).              *)
(*                                                                         *)
(* The state is the table, the database's id generator and the request    *)
(* being answered.  Each handler action is one whole HTTP request: request *)
(* validation by the framework, the handler body, the commit and the       *)
(* response.  Deliver hands the response to the client, which may then     *)
(* send its next request: in specification Spec requests are served one    *)
(* at a time, as the test client of tests/conftest.py sends them.          *)
(*                                                                         *)
(* Specification ConcSpec runs the requests of several clients at once,    *)
(* each with its own session (get_session), interleaved between the read   *)
(* of its handler (session.get) and its commit.                            *)
(***************************************************************************)
EXTENDS Integers, Sequences, FiniteSets, TLC

\* ------------------------------------------------------------------ bounds

\* Largest primary key the database hands out in a behaviour (the real
\* sequence is unbounded); also the largest number of rows stored at once.
MaxId == 2

\* ------------------------------------------------------------- value space

\* JSON null / Python None.
NULL == "<null>"
\* A key that does not occur in the request body or query string.
ABSENT == "<unset>"

\* String values per field.  "" is the empty (falsy) string.
ComplainNos == {"C1"}
Remarks == {"r"}
Statuses == {"", "pending"}
Creators == {"", "u"}

Fields == {"complain_no", "complain_remarks", "complain_status", "created_by"}

FieldStrings(f) ==
    CASE f = "complain_no" -> ComplainNos
      [] f = "complain_remarks" -> Remarks
      [] f = "complain_status" -> Statuses
      [] f = "created_by" -> Creators

\* What a JSON body can carry for a field: nothing, null or a string.
BodyValues(f) == {ABSENT, NULL} \cup FieldStrings(f)

\* Columns of table "tasks" declared `str` (not Optional): NOT NULL columns.
NotNullColumns == {"complain_no", "complain_status", "created_by"}

\* Database backends DATABASE_URL can name.  They differ in how the integer
\* primary key is generated and in how LIMIT/OFFSET treat negative numbers.
Backends == {"sqlite", "postgresql"}

Ids == 1..MaxId
\* Ids a client may put in the path; 0 is never a stored id.
PathIds == 0..MaxId

VARIABLES
    backend,  \* which database DATABASE_URL names
    tasks,    \* the rows of table "tasks", in storage order
    seq,      \* postgresql: last value of the id sequence (0 on sqlite)
    req,      \* the request being answered (Idle between requests)
    resp,     \* the response to it
    written,  \* id -> field values last written by a successful create/update
    clients   \* ConcSpec: each client's request in progress and its session

vars == <<backend, tasks, seq, req, resp, written, clients>>

\* --------------------------------------------------------------- the table

\* class Task: a row of the table.
Task ==
    [id : Ids,
     complain_no : ComplainNos,
     complain_remarks : Remarks \cup {NULL},
     complain_status : Statuses,
     created_by : Creators]

StoredIds(ts) == {ts[i].id : i \in 1..Len(ts)}

\* Position of the row with primary key task_id, 0 when there is none.
IndexOf(ts, task_id) ==
    IF task_id \in StoredIds(ts)
    THEN CHOOSE i \in 1..Len(ts) : ts[i].id = task_id
    ELSE 0

\* Mutant of IntegrityOk: the columns are nullable.
IntegrityOk_nullable(row) == TRUE

\* The flush of a row succeeds only if no NOT NULL column holds NULL;
\* otherwise the database raises IntegrityError.
IntegrityOk(row) == \A c \in NotNullColumns : row[c] # NULL

MaxOf(S) == IF S = {} THEN 0 ELSE CHOOSE m \in S : \A x \in S : x <= m

\* Mutant of NextId: the id is the number of rows plus one.
NextId_count(be, ts, sq) == Len(ts) + 1

\* Primary key the database generates for an INSERT without id.
\* sqlite (INTEGER PRIMARY KEY, no AUTOINCREMENT): largest rowid + 1.
\* postgresql (SERIAL): next value of the sequence, never reused.
NextId(be, ts, sq) ==
    IF be = "sqlite" THEN MaxOf(StoredIds(ts)) + 1 ELSE sq + 1

\* ---------------------------------------------------------------- responses

NoDetail == <<>>
NotFoundDetail(task_id) == <<"Task with ID", task_id, "not found">>
DeletedDetail == <<"Task deleted successfully">>

\* status: HTTP status; rows: the TaskResponse objects of the body;
\* id: the "id" member of a delete's body (-1 when the body has none).
Response(status, rows, detail, id) ==
    [status |-> status, rows |-> rows, detail |-> detail, id |-> id]

ValidationError == Response(422, <<>>, NoDetail, -1)
\* An exception no handler catches: the framework answers 500.
ServerError == Response(500, <<>>, NoDetail, -1)
NotFound(task_id) == Response(404, <<>>, NotFoundDetail(task_id), -1)

\* What a handler leaves behind: the table, the sequence and the response.
Outcome(ts, sq, r) == [tasks |-> ts, seq |-> sq, resp |-> r]

\* ------------------------------------------------------------ request bodies

\* A client may send an "id" member in a create body: none, or a number.
BodyIds == {<<>>, <<1>>}

\* JSON bodies of POST /tasks.
CreateBodies ==
    [id : BodyIds,
     complain_no : BodyValues("complain_no"),
     complain_remarks : BodyValues("complain_remarks"),
     complain_status : BodyValues("complain_status"),
     created_by : BodyValues("created_by")]

\* JSON bodies of PUT /tasks/{task_id}.
UpdateBodies ==
    [complain_no : BodyValues("complain_no"),
     complain_remarks : BodyValues("complain_remarks"),
     complain_status : BodyValues("complain_status"),
     created_by : BodyValues("created_by")]

\* class TaskCreate: complain_no and created_by are required strings,
\* complain_status is a string with a default, complain_remarks is optional.
\* The body's "id" member is not a field of TaskCreate and is ignored.
TaskCreate(body) ==
    /\ body.complain_no \notin {ABSENT, NULL}
    /\ body.created_by \notin {ABSENT, NULL}
    /\ body.complain_status # NULL

\* class TaskUpdate: every field is Optional[str] = None, so a body that
\* omits a field or gives it as null passes validation.
TaskUpdate(body) == \A f \in Fields : body[f] \in BodyValues(f)

\* Mutant of model_validate: complain_remarks is not copied from the body.
model_validate_no_remarks(body) ==
    [complain_no |-> body.complain_no,
     complain_remarks |-> NULL,
     complain_status |->
        IF body.complain_status = ABSENT THEN "pending" ELSE body.complain_status,
     created_by |-> body.created_by]

\* Task.model_validate(task): the field values of the new row, with the
\* defaults of TaskCreate applied to the fields the body left out.
model_validate(body) ==
    [complain_no |-> body.complain_no,
     complain_remarks |->
        IF body.complain_remarks = ABSENT THEN NULL ELSE body.complain_remarks,
     complain_status |->
        IF body.complain_status = ABSENT THEN "pending" ELSE body.complain_status,
     created_by |-> body.created_by]

\* Mutant of model_dump: exclude_none=True in place of exclude_unset=True,
\* which also drops the keys given as null.
model_dump_exclude_none(body) == {f \in Fields : body[f] \notin {ABSENT, NULL}}

\* task_update.model_dump(exclude_unset=True): the keys the body carries.
model_dump(body) == {f \in Fields : body[f] # ABSENT}

WithId(task_id, values) ==
    [id |-> task_id,
     complain_no |-> values.complain_no,
     complain_remarks |-> values.complain_remarks,
     complain_status |-> values.complain_status,
     created_by |-> values.created_by]

\* ------------------------------------------------------------------ handlers

\* POST /tasks
create_task(be, ts, sq, body) ==
    IF ~TaskCreate(body) THEN Outcome(ts, sq, ValidationError)
    ELSE LET new_id == NextId(be, ts, sq)
             db_task == WithId(new_id, model_validate(body))
         IN  IF ~IntegrityOk(db_task)
             THEN Outcome(ts, sq, ServerError)
             ELSE Outcome(Append(ts, db_task),
                          IF be = "sqlite" THEN sq ELSE new_id,
                          Response(201, <<db_task>>, NoDetail, -1))

\* GET /tasks/{task_id}
get_task(ts, sq, task_id) ==
    LET i == IndexOf(ts, task_id)
    IN  IF i = 0 THEN Outcome(ts, sq, NotFound(task_id))
        ELSE Outcome(ts, sq, Response(200, <<ts[i]>>, NoDetail, -1))

\* Mutant of setattrs: model_dump() without exclude_unset, so that every
\* field the body leaves out is written as None.
setattrs_all_fields(task, body) ==
    [f \in DOMAIN task |->
        IF f \notin Fields THEN task[f]
        ELSE IF body[f] = ABSENT THEN NULL ELSE body[f]]

\* The loop `for key, value in task_data.items(): setattr(task, key, value)`.
setattrs(task, body) ==
    [f \in DOMAIN task |->
        IF f \in model_dump(body) THEN body[f] ELSE task[f]]

\* Mutant of update_task: a missing row is inserted (session.merge) instead
\* of answered with 404.
update_task_upsert(ts, sq, task_id, body) ==
    LET i == IndexOf(ts, task_id)
        blank == [id |-> task_id, complain_no |-> "C1", complain_remarks |-> NULL,
                  complain_status |-> "pending", created_by |-> "u"]
        task == setattrs(IF i = 0 THEN blank ELSE ts[i], body)
    IN  IF ~IntegrityOk(task) THEN Outcome(ts, sq, ServerError)
        ELSE Outcome(IF i = 0 THEN Append(ts, task) ELSE [ts EXCEPT ![i] = task],
                     sq, Response(200, <<task>>, NoDetail, -1))

\* PUT /tasks/{task_id}
update_task(ts, sq, task_id, body) ==
    IF ~TaskUpdate(body) THEN Outcome(ts, sq, ValidationError)
    ELSE LET i == IndexOf(ts, task_id)
         IN  IF i = 0 THEN Outcome(ts, sq, NotFound(task_id))
             ELSE LET task == setattrs(ts[i], body)
                  IN  IF ~IntegrityOk(task)
                      THEN Outcome(ts, sq, ServerError)
                      ELSE Outcome([ts EXCEPT ![i] = task], sq,
                                   Response(200, <<task>>, NoDetail, -1))

\* Mutant of delete_task: session.commit() is left out, so the DELETE is
\* rolled back when the session closes.
delete_task_no_commit(ts, sq, task_id) ==
    LET i == IndexOf(ts, task_id)
    IN  IF i = 0 THEN Outcome(ts, sq, NotFound(task_id))
        ELSE Outcome(ts, sq, Response(200, <<>>, DeletedDetail, task_id))

\* DELETE /tasks/{task_id}
delete_task(ts, sq, task_id) ==
    LET i == IndexOf(ts, task_id)
    IN  IF i = 0 THEN Outcome(ts, sq, NotFound(task_id))
        ELSE Outcome(SubSeq(ts, 1, i - 1) \o SubSeq(ts, i + 1, Len(ts)), sq,
                     Response(200, <<>>, DeletedDetail, task_id))

\* ------------------------------------------------------------- GET /tasks

\* Query-string values of the optional filters.
StatusParams == {ABSENT} \cup Statuses
CreatedByParams == {ABSENT} \cup Creators
\* Query-string values of skip and limit, as the client writes them.
SkipParams == {ABSENT, "-1", "1"}
LimitParams == {ABSENT, "-1", "0", "1", "x"}

\* Default of `limit: int = 100`.
DefaultLimit == 100
\* Default of `skip: int = 0`.
DefaultSkip == 0

\* The framework's conversion of a query-string value to `int`:
\* <<n>> for a decimal integer, <<>> when the text is not an integer.
ParseInt(text) ==
    CASE text = "-1" -> <<-1>>
      [] text = "0" -> <<0>>
      [] text = "1" -> <<1>>
      [] text = "2" -> <<2>>
      [] OTHER -> <<>>

\* `skip: int = 0` / `limit: int = 100`: the default when the key is absent.
IntParam(text, default) == IF text = ABSENT THEN <<default>> ELSE ParseInt(text)

\* Python truth value of an Optional[str]: None and "" are false.
Truthy(s) == s # ABSENT /\ s # NULL /\ s # ""

\* The WHERE clauses list_tasks adds to select(Task).
Where(task, status, created_by) ==
    /\ Truthy(status) => task.complain_status = status
    /\ Truthy(created_by) => task.created_by = created_by

Filtered(ts, status, created_by) ==
    LET Keep(task) == Where(task, status, created_by)
    IN  SelectSeq(ts, Keep)

Min(a, b) == IF a <= b THEN a ELSE b

\* Mutant of OffsetLimit: the limit is applied before the offset.
OffsetLimit_limit_first(rows, skip, limit) ==
    SubSeq(SubSeq(rows, 1, Min(Len(rows), limit)), skip + 1, Min(Len(rows), limit))

\* OFFSET skip LIMIT limit with non-negative numbers.
OffsetLimit(rows, skip, limit) ==
    SubSeq(rows, skip + 1, Min(Len(rows), skip + limit))

\* statement.offset(skip).limit(limit) executed by the database.
\* sqlite: a negative OFFSET counts as 0, a negative LIMIT as no limit.
\* postgresql: a negative OFFSET or LIMIT is an error the handler does not
\* catch.
list_tasks(be, ts, sq, status, created_by, skip, limit) ==
    LET s == IntParam(skip, DefaultSkip)
        l == IntParam(limit, DefaultLimit)
    IN  IF s = <<>> \/ l = <<>> THEN Outcome(ts, sq, ValidationError)
        ELSE IF be = "postgresql" /\ (s[1] < 0 \/ l[1] < 0)
        THEN Outcome(ts, sq, ServerError)
        ELSE LET rows == Filtered(ts, status, created_by)
                 off == IF s[1] < 0 THEN 0 ELSE s[1]
                 lim == IF l[1] < 0 THEN Len(rows) ELSE l[1]
             IN  Outcome(ts, sq,
                         Response(200, OffsetLimit(rows, off, lim), NoDetail, -1))

\* ------------------------------------------------------------------ requests

NoBody == <<>>
NoQuery == <<>>

Request(op, task_id, body, query) ==
    [op |-> op, id |-> task_id, body |-> body, query |-> query]

\* The field values an update with `body` asks for, over the values written
\* before it.
Overlay(values, body) ==
    [f \in Fields |-> IF body[f] # ABSENT THEN body[f] ELSE values[f]]

\* Bookkeeping of `written`: forget id k / record the values of id k.
Without(f, k) == [x \in (DOMAIN f) \ {k} |-> f[x]]
With(f, k, v) == [x \in (DOMAIN f) \cup {k} |-> IF x = k THEN v ELSE f[x]]

\* No request is in flight.
Idle == Request("idle", 0, NoBody, NoQuery)
NoResponse == Response(0, <<>>, NoDetail, -1)

\* Clients that send requests at the same time (ConcSpec).
Clients == {"a", "b"}

\* A client with no request in progress and no session.
NoRequest ==
    [pc |-> "idle", op |-> "none", id |-> 0, body |-> NoBody, loaded |-> <<>>,
     status |-> 0, session |-> "none", opened |-> 0]

Serve(o, r) ==
    /\ tasks' = o.tasks
    /\ seq' = o.seq
    /\ resp' = o.resp
    /\ req' = r
    /\ backend' = backend
    /\ clients' = clients

Init ==
    /\ backend \in Backends
    /\ tasks = <<>>
    /\ seq = 0
    /\ req = Idle
    /\ resp = NoResponse
    /\ written = <<>>
    /\ clients = [c \in Clients |-> NoRequest]

CreateTask ==
    /\ req = Idle
    /\ \E body \in CreateBodies :
        LET o == create_task(backend, tasks, seq, body)
        IN  /\ TaskCreate(body) => NextId(backend, tasks, seq) <= MaxId
            /\ Serve(o, Request("create", 0, body, NoQuery))
            /\ written' =
                 IF o.resp.status = 201
                 THEN With(written, o.resp.rows[1].id, model_validate(body))
                 ELSE written

ListTasks ==
    /\ req = Idle
    /\ \E status \in StatusParams, created_by \in CreatedByParams,
       skip \in SkipParams, limit \in LimitParams :
        /\ Serve(list_tasks(backend, tasks, seq, status, created_by, skip, limit),
                 Request("list", 0, NoBody,
                         [status |-> status, created_by |-> created_by,
                          skip |-> skip, limit |-> limit]))
        /\ UNCHANGED written

GetTask ==
    /\ req = Idle
    /\ \E task_id \in PathIds :
        /\ Serve(get_task(tasks, seq, task_id),
                 Request("get", task_id, NoBody, NoQuery))
        /\ UNCHANGED written

UpdateTask ==
    /\ req = Idle
    /\ \E task_id \in PathIds, body \in UpdateBodies :
        LET o == update_task(tasks, seq, task_id, body)
        IN  /\ Serve(o, Request("update", task_id, body, NoQuery))
            /\ written' =
                 IF o.resp.status = 200
                 THEN [written EXCEPT ![task_id] = Overlay(@, body)]
                 ELSE written

DeleteTask ==
    /\ req = Idle
    /\ \E task_id \in PathIds :
        LET o == delete_task(tasks, seq, task_id)
        IN  /\ Serve(o, Request("delete", task_id, NoBody, NoQuery))
            /\ written' =
                 IF o.resp.status = 200 THEN Without(written, task_id)
                 ELSE written

\* The response reaches the client and the request is over.
Deliver ==
    /\ req # Idle
    /\ req' = Idle
    /\ resp' = NoResponse
    /\ UNCHANGED <<backend, tasks, seq, written, clients>>

Next ==
    \/ CreateTask
    \/ ListTasks
    \/ GetTask
    \/ UpdateTask
    \/ DeleteTask
    \/ Deliver

Spec == Init /\ [][Next]_vars

\* ------------------------------------------------- concurrent requests

\* Bodies the concurrent clients send: a create with the required fields
\* only and one without complain_no; updates that name a single field.
ConcCreateBodies ==
    {b \in CreateBodies :
        /\ b.id = <<>> /\ b.complain_remarks = ABSENT
        /\ b.complain_status = ABSENT /\ b.created_by = "u"
        /\ b.complain_no \in {ABSENT, "C1"}}

ConcUpdateBodies ==
    {b \in UpdateBodies :
        /\ b.complain_no = ABSENT /\ b.complain_remarks = ABSENT
        /\ \/ b.complain_status \in Statuses /\ b.created_by = ABSENT
           \/ b.complain_status = ABSENT /\ b.created_by \in {"", NULL}}

\* Mutant of get_session: the session is closed after the yield without a
\* `with` or try/finally, so only when the handler returned normally.
get_session_no_with(status) == IF status < 400 THEN "closed" ELSE "open"

\* get_session: `with Session(engine) as session: yield session`.  The
\* with-block closes the session however the request ends; `status` is the
\* status the request ended with.
get_session(status) == "closed"

\* Mutant of commit_update: the flush writes every field of the loaded
\* object back (an INSERT OR REPLACE of the whole row).
commit_update_whole_row(ts, sq, task_id, body, loaded) ==
    LET task == setattrs(loaded, body)
        i == IndexOf(ts, task_id)
    IN  IF ~IntegrityOk(task) THEN Outcome(ts, sq, ServerError)
        ELSE Outcome(IF i = 0 THEN Append(ts, task) ELSE [ts EXCEPT ![i] = task],
                     sq, Response(200, <<task>>, NoDetail, -1))

\* session.add(task); session.commit(); session.refresh(task) of update_task,
\* for a task object loaded earlier by this session.  The flush compares
\* every attribute with the value loaded and emits
\*   UPDATE tasks SET <the attributes with a net change> WHERE id = task_id
\* and nothing at all when no attribute has a net change.  An UPDATE that
\* matches no row raises StaleDataError, a NULL in a NOT NULL column
\* IntegrityError; refresh raises when the row is gone.
commit_update(ts, sq, task_id, body, loaded) ==
    LET changed == {f \in model_dump(body) : body[f] # loaded[f]}
        i == IndexOf(ts, task_id)
    IN  IF i = 0 THEN Outcome(ts, sq, ServerError)
        ELSE IF \E f \in changed \cap NotNullColumns : body[f] = NULL
        THEN Outcome(ts, sq, ServerError)
        ELSE LET task == [f \in DOMAIN ts[i] |->
                            IF f \in changed THEN body[f] ELSE ts[i][f]]
             IN  Outcome([ts EXCEPT ![i] = task], sq,
                         Response(200, <<task>>, NoDetail, -1))

\* session.delete(task); session.commit() of delete_task, for a task object
\* loaded earlier by this session: DELETE FROM tasks WHERE id = task_id.  A
\* DELETE that matches no row is only warned about.
commit_delete(ts, sq, task_id) ==
    LET i == IndexOf(ts, task_id)
    IN  Outcome(IF i = 0 THEN ts
                ELSE SubSeq(ts, 1, i - 1) \o SubSeq(ts, i + 1, Len(ts)),
                sq, Response(200, <<>>, DeletedDetail, task_id))

\* Creates that have not committed yet.
PendingCreates ==
    Cardinality({c \in Clients : clients[c].pc = "read" /\ clients[c].op = "create"})

\* Client c may send a request: it has none in progress.
CanBegin(c) == clients[c].pc \in {"idle", "done"}

\* The handler of c's request is between its read and its commit.
Reading(c, op, task_id, body, loaded) ==
    clients' = [clients EXCEPT ![c] =
        [pc |-> "read", op |-> op, id |-> task_id, body |-> body,
         loaded |-> loaded, status |-> 0, session |-> "open", opened |-> 1]]

\* The handler of c's request has returned or raised; its session is open.
Finishing(c, op, status, opened) ==
    clients' = [clients EXCEPT ![c] =
        [pc |-> "finishing", op |-> "none", id |-> 0, body |-> NoBody,
         loaded |-> <<>>, status |-> status, session |-> "open",
         opened |-> opened]]

\* POST /tasks up to session.add: the session is opened and the body
\* validated.
BeginCreate(c) ==
    /\ CanBegin(c)
    /\ \E body \in ConcCreateBodies :
          IF TaskCreate(body)
          THEN /\ NextId(backend, tasks, seq) + PendingCreates <= MaxId
               /\ Reading(c, "create", 0, body, <<>>)
          ELSE Finishing(c, "create", 422, 1)
    /\ UNCHANGED <<backend, tasks, seq, req, resp, written>>

\* GET /tasks
BeginList(c) ==
    /\ CanBegin(c)
    /\ Finishing(c, "list",
                 list_tasks(backend, tasks, seq, ABSENT, ABSENT, ABSENT, ABSENT)
                    .resp.status, 1)
    /\ UNCHANGED <<backend, tasks, seq, req, resp, written>>

\* GET /tasks/{task_id}
BeginGet(c) ==
    /\ CanBegin(c)
    /\ \E task_id \in Ids :
          Finishing(c, "get", get_task(tasks, seq, task_id).resp.status, 1)
    /\ UNCHANGED <<backend, tasks, seq, req, resp, written>>

\* PUT /tasks/{task_id} up to session.get: 404 when the row is not there.
BeginUpdate(c) ==
    /\ CanBegin(c)
    /\ \E task_id \in Ids, body \in ConcUpdateBodies :
          IF IndexOf(tasks, task_id) = 0
          THEN Finishing(c, "update", 404, 1)
          ELSE Reading(c, "update", task_id, body,
                       <<tasks[IndexOf(tasks, task_id)]>>)
    /\ UNCHANGED <<backend, tasks, seq, req, resp, written>>

\* DELETE /tasks/{task_id} up to session.get.
BeginDelete(c) ==
    /\ CanBegin(c)
    /\ \E task_id \in Ids :
          IF IndexOf(tasks, task_id) = 0
          THEN Finishing(c, "delete", 404, 1)
          ELSE Reading(c, "delete", task_id, NoBody,
                       <<tasks[IndexOf(tasks, task_id)]>>)
    /\ UNCHANGED <<backend, tasks, seq, req, resp, written>>

\* What the commit of c's handler does to the table.
Committed(c) ==
    LET r == clients[c]
    IN  CASE r.op = "create" -> create_task(backend, tasks, seq, r.body)
          [] r.op = "update" ->
                commit_update(tasks, seq, r.id, r.body, r.loaded[1])
          [] r.op = "delete" -> commit_delete(tasks, seq, r.id)

\* The rest of the handler of c's create, update or delete: the commit
\* (with the refresh that follows it) and the return.
Commit(c) ==
    /\ clients[c].pc = "read"
    /\ tasks' = Committed(c).tasks
    /\ seq' = Committed(c).seq
    /\ Finishing(c, clients[c].op, Committed(c).resp.status, clients[c].opened)
    /\ UNCHANGED <<backend, req, resp, written>>

\* The end of c's request: get_session resumes after its yield and the
\* response goes out.
Close(c) ==
    /\ clients[c].pc = "finishing"
    /\ clients' = [clients EXCEPT ![c].pc = "done",
                                  ![c].session = get_session(clients[c].status)]
    /\ UNCHANGED <<backend, tasks, seq, req, resp, written>>

ConcNext ==
    \E c \in Clients :
        \/ BeginCreate(c)
        \/ BeginList(c)
        \/ BeginGet(c)
        \/ BeginUpdate(c)
        \/ BeginDelete(c)
        \/ Commit(c)
        \/ Close(c)

\* A handler that has started runs to its end, and get_session then
\* resumes: the server starves no request.
ConcFairness == \A c \in Clients : WF_vars(Commit(c)) /\ WF_vars(Close(c))

ConcSpec == Init /\ [][ConcNext]_vars /\ ConcFairness

\* =================================================================== claims

\* The stored row with primary key task_id (which must be stored).
RowOf(ts, task_id) == ts[IndexOf(ts, task_id)]

\* The step just taken answered request `op` with `status`.
Answered(op, status) == req.op = op /\ resp.status = status

\* ----------------------------------------------------------------------- C1
\* C1: a successful PUT /tasks/{id} sets exactly the fields present in the
\* body to the body's values, keeps every field absent from the body and the
\* id at their pre-update values, keeps the table as it was when the body is
\* empty, and changes no other stored task.
C1_PartialUpdateFrame ==
    [][ (req'.op = "update" /\ resp'.status = 200) =>
          LET body == req'.body
              task_id == req'.id
          IN  /\ task_id \in StoredIds(tasks)
              /\ StoredIds(tasks') = StoredIds(tasks)
              /\ Len(tasks') = Len(tasks)
              /\ RowOf(tasks', task_id).id = task_id
              /\ \A f \in Fields :
                    RowOf(tasks', task_id)[f] =
                        IF body[f] # ABSENT THEN body[f]
                        ELSE RowOf(tasks, task_id)[f]
              /\ (\A f \in Fields : body[f] = ABSENT) => tasks' = tasks
              /\ \A other \in StoredIds(tasks) \ {task_id} :
                    RowOf(tasks', other) = RowOf(tasks, other)
              /\ resp'.rows = <<RowOf(tasks', task_id)>>
      ]_vars

\* A partial update (some field present, some absent) of one of two stored
\* tasks has succeeded.
C1_Witness ==
    /\ Answered("update", 200)
    /\ Len(tasks) = 2
    /\ req.body.complain_status = ""
    /\ req.body.complain_remarks = NULL
    /\ req.body.created_by = ABSENT
    /\ RowOf(tasks, req.id).created_by = "u"

\* ----------------------------------------------------------------------- C2
\* C2 (as claimed): for each of the four fields, an update of a stored task
\* that gives the field as null succeeds and the stored field is null
\* afterwards, whereas an update that omits the field leaves it untouched.
C2_ExplicitNullApplied ==
    [][ (req'.op = "update" /\ req'.id \in StoredIds(tasks)) =>
          \A f \in Fields :
              /\ req'.body[f] = NULL =>
                    /\ resp'.status = 200
                    /\ RowOf(tasks', req'.id)[f] = NULL
              /\ req'.body[f] = ABSENT =>
                    RowOf(tasks', req'.id)[f] = RowOf(tasks, req'.id)[f]
      ]_vars

\* ----------------------------------------------------------------------- C3
\* The ids of the rows GET /tasks returns, over every filter and page.
ListedIds(be, ts, sq) ==
    UNION { StoredIds(list_tasks(be, ts, sq, st, cb, sk, li).resp.rows) :
              <<st, cb, sk, li>> \in
                 StatusParams \X CreatedByParams \X SkipParams \X LimitParams }

\* C3: right after a successful DELETE /tasks/{id} (200 with the id in the
\* body) a get of that id answers 404, a second delete of it answers 404 and
\* no list request returns a task with that id.
C3_DeleteIsHard ==
    Answered("delete", 200) =>
        /\ resp.id = req.id
        /\ get_task(tasks, seq, req.id).resp.status = 404
        /\ delete_task(tasks, seq, req.id).resp.status = 404
        /\ req.id \notin ListedIds(backend, tasks, seq)

\* One of two stored tasks has been deleted; the other is still listed.
C3_Witness ==
    /\ Answered("delete", 200)
    /\ Len(tasks) = 1
    /\ ListedIds(backend, tasks, seq) # {}

\* ----------------------------------------------------------------------- C4
\* C4: in every reachable state, GET /tasks/{id} of a stored task returns the
\* field values written by the most recent successful create or update of
\* that id (fields an update left out keep what was written before), and a
\* get that has just been answered 200 returned exactly those values.
C4_ReadReturnsLastWrite ==
    /\ DOMAIN written = StoredIds(tasks)
    /\ \A task_id \in StoredIds(tasks) :
          LET r == get_task(tasks, seq, task_id).resp
          IN  /\ r.status = 200
              /\ r.rows = <<WithId(task_id, written[task_id])>>
    /\ Answered("get", 200) =>
          resp.rows = <<WithId(req.id, written[req.id])>>

\* A get of the second of two stored tasks has been answered.
C4_Witness ==
    /\ Answered("get", 200)
    /\ Len(tasks) = 2
    /\ req.id = 2
    /\ resp.rows[1].complain_remarks = NULL
    /\ resp.rows[1].complain_status = ""

\* ----------------------------------------------------------------------- C5
\* C5: every successful POST /tasks returns an id that is a positive integer,
\* differs from the id of every task stored just before the create (also
\* when the body names an id) and is the id of the stored new row; the ids
\* of the stored tasks are pairwise distinct in every state.
C5_FreshId ==
    [][ /\ (req'.op = "create" /\ resp'.status = 201) =>
              LET new_id == resp'.rows[1].id
              IN  /\ new_id \in Nat \ {0}
                  /\ new_id \notin StoredIds(tasks)
                  /\ StoredIds(tasks') = StoredIds(tasks) \cup {new_id}
        /\ Cardinality(StoredIds(tasks')) = Len(tasks')
      ]_vars

\* A create whose body names id 1 while task 1 is stored got another id.
C5_Witness ==
    /\ Answered("create", 201)
    /\ req.body.id = <<1>>
    /\ resp.rows[1].id = 2
    /\ StoredIds(tasks) = {1, 2}

\* ----------------------------------------------------------------------- C6
\* C6 (as claimed): a list answered 200 with a status filter returns only
\* tasks whose complain_status equals it, with a created_by filter only tasks
\* whose created_by equals it, and with both only tasks matching both.
C6_FilterEquality ==
    Answered("list", 200) =>
        \A i \in 1..Len(resp.rows) :
            /\ req.query.status # ABSENT =>
                  resp.rows[i].complain_status = req.query.status
            /\ req.query.created_by # ABSENT =>
                  resp.rows[i].created_by = req.query.created_by

\* ----------------------------------------------------------------------- C7
\* C7 (as claimed): every request ends in a success (200, 201), a validation
\* failure (422) or a not-found (404).
C7_TwoErrorKinds ==
    req # Idle => resp.status \in {200, 201, 404, 422}

\* ----------------------------------------------------------------------- C8
\* C8: in every reachable state every stored task has a non-null complain_no,
\* created_by and complain_status; only complain_remarks may be null.
C8_RequiredFieldsPresent ==
    \A i \in 1..Len(tasks) :
        /\ tasks[i] \in Task
        /\ \A c \in NotNullColumns : tasks[i][c] # NULL

\* An update has given a required field of a stored task as null, and a
\* stored task has null remarks.
C8_Witness ==
    /\ req.op = "update"
    /\ req.id \in StoredIds(tasks)
    /\ req.body.created_by = NULL
    /\ \E i \in 1..Len(tasks) : tasks[i].complain_remarks = NULL

\* ----------------------------------------------------------------------- C9
\* C9 (as claimed): GET /tasks with a negative skip, or with a limit that is
\* zero or negative, is answered with a validation error (422).
C9_PaginationValidated ==
    LET s == IntParam(req.query.skip, DefaultSkip)
        l == IntParam(req.query.limit, DefaultLimit)
    IN  (req.op = "list" /\ s # <<>> /\ l # <<>> /\ (s[1] < 0 \/ l[1] < 1))
            => resp.status = 422

\* ---------------------------------------------------------------------- C10
\* C10: a create whose body lacks complain_no or created_by is answered 422;
\* a get, update or delete of an id with no stored task is answered 404 with
\* a detail naming the id and saying "not found"; each leaves the table and
\* the id sequence as they were.
C10_FailedRequestsChangeNothing ==
    [][ /\ (req'.op = "create" /\
            (req'.body.complain_no = ABSENT \/ req'.body.created_by = ABSENT)) =>
               resp'.status = 422 /\ tasks' = tasks /\ seq' = seq
        /\ (req'.op \in {"get", "update", "delete"} /\
            req'.id \notin StoredIds(tasks)) =>
               /\ resp'.status = 404
               /\ resp'.detail = <<"Task with ID", req'.id, "not found">>
               /\ tasks' = tasks
               /\ seq' = seq
        /\ resp'.status \in {404, 422} => tasks' = tasks /\ seq' = seq
      ]_vars

\* An update of an id that is not stored was answered 404 while another
\* task is stored.
C10_Witness ==
    /\ Answered("update", 404)
    /\ req.id = 2
    /\ StoredIds(tasks) = {1}
    /\ req.body.complain_status = ""

C12_CreateAppliesDefaults ==
    [][ (req'.op = "create" /\ resp'.status = 201) =>
          LET body == req'.body
              new == resp'.rows[1]
          IN  /\ Len(resp'.rows) = 1
              /\ Len(tasks') = Len(tasks) + 1
              /\ \A i \in 1..Len(tasks) : tasks'[i] = tasks[i]
              /\ tasks'[Len(tasks')] = new
              /\ new.id \in Ids
              /\ new.complain_no = body.complain_no
              /\ new.created_by = body.created_by
              /\ new.complain_status =
                    IF body.complain_status = ABSENT THEN "pending"
                    ELSE body.complain_status
              /\ new.complain_remarks =
                    IF body.complain_remarks = ABSENT THEN NULL
                    ELSE body.complain_remarks
      ]_vars

\* A create with only the required fields was answered with the defaults,
\* next to a stored task.
C12_Witness ==
    /\ Answered("create", 201)
    /\ req.body.complain_status = ABSENT
    /\ req.body.complain_remarks = ABSENT
    /\ Len(tasks) = 2
    /\ resp.rows[1].complain_status = "pending"
    /\ resp.rows[1].complain_remarks = NULL
    /\ tasks[2] = resp.rows[1]

\* ---------------------------------------------------------------------- C13
\* The table after c's request is applied alone, as one whole handler, to
\* table ts.
AppliedAlone(ts, c) ==
    LET r == clients[c]
    IN  CASE r.op = "create" -> create_task(backend, ts, seq, r.body).tasks
          [] r.op = "update" -> update_task(ts, seq, r.id, r.body).tasks
          [] r.op = "delete" -> delete_task(ts, seq, r.id).tasks

\* Client c's handler commits in this step.
Commits(c) == clients[c].pc = "read" /\ clients'[c].pc = "finishing"

\* C13 (as claimed): with interleaved requests the stored state is always the
\* one obtained by applying the successfully committed requests one at a
\* time in commit order: every commit that succeeds changes the table as its
\* request applied alone at that moment would, and nothing else changes it.
C13_SerialInCommitOrder ==
    [][ /\ \A c \in Clients :
              Commits(c) =>
                  tasks' = IF clients'[c].status \in {200, 201}
                           THEN AppliedAlone(tasks, c)
                           ELSE tasks
        /\ (\A c \in Clients : ~Commits(c)) => tasks' = tasks
      ]_vars

\* C13, the two cases the claim singles out (they hold): the commit of an
\* update never stores a task that is not stored at that moment, so a task
\* whose delete has committed is not stored again by an update that read it
\* earlier; and the commit of an update leaves every field its body does not
\* name as it is at that moment and sets every field whose value in the body
\* differs from the value read, so two updates to different fields of one
\* task both take effect.
C13_SingledOutCases ==
    [][ \A c \in Clients :
          (Commits(c) /\ clients[c].op = "update") =>
              LET r == clients[c]
              IN  /\ StoredIds(tasks') = StoredIds(tasks)
                  /\ clients'[c].status = 200 =>
                        \A f \in Fields :
                            /\ r.body[f] = ABSENT =>
                                  RowOf(tasks', r.id)[f] = RowOf(tasks, r.id)[f]
                            /\ (r.body[f] # ABSENT /\ r.body[f] # r.loaded[1][f]) =>
                                  RowOf(tasks', r.id)[f] = r.body[f]
      ]_vars

\* ---------------------------------------------------------------------- C14
\* C14: every request opens exactly one session, which is open while the
\* handler runs and closed once the request has ended, whether the handler
\* returned, raised 404 or its commit failed: no session opened by a
\* finished request is open.
C14_SessionReleased ==
    \A c \in Clients :
        LET r == clients[c]
        IN  /\ r.pc = "idle" => r.session = "none" /\ r.opened = 0
            /\ r.pc \in {"read", "finishing"} =>
                  r.session = "open" /\ r.opened = 1
            /\ r.pc = "done" => r.session = "closed" /\ r.opened = 1

\* C14, liveness: under ConcFairness every session that is opened is
\* eventually closed.
C14_EventuallyClosed ==
    \A c \in Clients :
        (clients[c].session = "open") ~> (clients[c].session = "closed")

\* One request has ended with 404 and another with a failed commit (500);
\* both sessions are closed.
C14_Witness ==
    /\ clients["a"].pc = "done"
    /\ clients["a"].status = 404
    /\ clients["a"].session = "closed"
    /\ clients["b"].pc = "done"
    /\ clients["b"].status = 500
    /\ clients["b"].session = "closed"

====
